---- MODULE Spec2Model ----
(***************************************************************************)
(* A model of cmd/konflux-gen/main.go: the name derivation (Name,          *)
(* makeValidName, truncate, sanitize), the include/exclude filter of       *)
(* collectConfigurations, and the run pipeline (flag validation, walk,     *)
(* grouping, output).                                                      *)
(*                                                                         *)
(* Strings are sequences of characters.  A character is a record           *)
(*   [lit |-> c, md5 |-> <<>>, k |-> 0]   the literal byte c, or           *)
(*   [lit |-> "", md5 |-> s,   k |-> i]   the i-th hex digit of md5(s),    *)
(* so that md5.Sum is a free (collision-free) constructor: two renderings  *)
(* are equal exactly when their inputs are.  A hex digit is an ordinary    *)
(* alphanumeric character and may occur in any input string.               *)
(***************************************************************************)
EXTENDS Integers, Sequences, FiniteSets, TLC

VARIABLES
    pc,            \* position of the program
    parent,        \* Name: first argument
    suffix,        \* Name: second argument
    ret,           \* Name: what the call returned, [panic, val]
    flags,         \* run: the command line, see Flags
    matchablePath, \* walk callback: the path relative to the root
    shouldInclude, \* walk callback: the outcome of the include/exclude loop
    rootErr,       \* what went wrong when the walk visited the root
    next,          \* walk: index in WalkOrder of the entry visited next
    parsed,        \* the calls of parseConfig so far, [path, ok]
    configs,       \* the parsed documents, in the order of the walk
    err,           \* the error run returned, [kind, path]
    groupIdx,      \* grouping loop: how many of configs are processed
    applications,  \* appKey -> componentKey -> DockerfileApplicationConfig
    visited,       \* output loop: the <<appKey, componentKey>> already done
    written        \* the output files and directories that exist

nameVars == <<parent, suffix, ret>>
filterVars == <<matchablePath, shouldInclude>>
walkVars == <<rootErr, next, parsed, configs>>
outVars == <<groupIdx, applications, visited, written>>
vars == <<pc, nameVars, flags, filterVars, walkVars, err, outVars>>

----------------------------------------------------------------------------
(* Strings *)

Ch(c) == [lit |-> c, md5 |-> <<>>, k |-> 0]

\* n copies of the literal c
Fill(c, n) == [i \in 1..n |-> Ch(c)]

\* a string of literals from a tuple of one-character strings
S(t) == [i \in 1..Len(t) |-> Ch(t[i])]

Lower == {"a","b","c","d","e","f","g","h","i","j","k","l","m",
          "n","o","p","q","r","s","t","u","v","w","x","y","z"}
Upper == {"A","B","C","D","E","F","G","H","I","J","K","L","M",
          "N","O","P","Q","R","S","T","U","V","W","X","Y","Z"}
Digit == {"0","1","2","3","4","5","6","7","8","9"}

\* a Go call either returns a value or panics (index or slice out of range)
Ok(v) == [panic |-> FALSE, val |-> v]
Panic == [panic |-> TRUE, val |-> <<>>]

\* s[:n]; Go panics unless 0 <= n <= len(s)
SliceTo(s, n) == IF n >= 0 /\ n <= Len(s) THEN Ok(SubSeq(s, 1, n)) ELSE Panic

----------------------------------------------------------------------------
(* Name derivation *)

longest == 63
md5Len == 32
head == longest - md5Len

\* fmt.Sprintf("%x", md5.Sum(input)): 32 lowercase hex digits
Md5Hex(input) == [i \in 1..md5Len |-> [lit |-> "", md5 |-> input, k |-> i]]

\* isAlphanumeric.MatchString(string(c)) for one byte c
IsAlphanumeric(c) == c.k > 0 \/ c.lit \in Lower \cup Upper \cup Digit

\* nothing is stripped
makeValidNameKeep(n) == Ok(n)

RECURSIVE makeValidName(_)
makeValidName(n) ==
    IF Len(n) = 0 THEN Panic     \* n[i] with i = -1
    ELSE IF IsAlphanumeric(n[Len(n)]) THEN Ok(n)
    ELSE makeValidName(SubSeq(n, 1, Len(n) - 1))

\* the parent is never trimmed
TrimParentNever(p) == Ok(p)

\* lines 298-300: trim parent, if needed
TrimParent(p) == IF head < Len(p) THEN SliceTo(p, head) ELSE Ok(p)

\* lines 294-309: the suffix is as long as the head, hash the whole string
NameLongSuffix(p, s) ==
    LET h == Md5Hex(p \o s)
        t == TrimParent(p)
        r == t.val \o h
        d == longest - Len(r)
    IN  IF t.panic THEN Panic
        ELSE IF d > 0
             THEN IF SliceTo(s, d).panic THEN Panic
                  ELSE makeValidName(r \o SliceTo(s, d).val)
             ELSE makeValidName(r)

\* the hash is taken of the truncated parent
NameHashTruncated(p, s) ==
    LET t == SliceTo(p, head - Len(s))
    IN  IF t.panic THEN Panic ELSE Ok(t.val \o Md5Hex(t.val))

\* line 311: the parent truncated, then the hash of the whole parent
NameHashParent(p, s) ==
    LET t == SliceTo(p, head - Len(s))
    IN  IF t.panic THEN Panic ELSE Ok(t.val \o Md5Hex(p))

Name(p, s) ==
    IF Len(p) > longest - Len(s)
    THEN IF head - Len(s) <= 0
         THEN NameLongSuffix(p, s)
         ELSE LET n == NameHashParent(p, s)
              IN  IF n.panic THEN Panic ELSE Ok(n.val \o s)
    ELSE Ok(p \o s)

\* truncate(input) == Name(in, "")
truncate(input) == Name(input, <<>>)

\* sanitize: strings.ReplaceAll(strings.ReplaceAll(in, ".", ""), " ", "-")
RECURSIVE sanitize(_)
sanitize(in) ==
    IF in = <<>> THEN <<>>
    ELSE LET c == Head(in)
         IN  (IF c = Ch(".") THEN <<>>
              ELSE IF c = Ch(" ") THEN <<Ch("-")>>
              ELSE <<c>>) \o sanitize(Tail(in))

----------------------------------------------------------------------------
(* Regular expressions, the filter, the keys *)

\* A compiled regexp is the set of strings it matches; a raw pattern that
\* does not compile has ok = FALSE.
Pat(m) == [ok |-> TRUE, m |-> m]
BadPat == [ok |-> FALSE, m |-> {}]
MatchString(r, s) == s \in r.m

\* toRegexp: the error of the first pattern that does not compile
toRegexpFails(raw) == \E i \in 1..Len(raw) : ~raw[i].ok

\* lines 183-187: the inner loop, from exclude j on
RECURSIVE ExcludeLoop(_, _, _, _)
ExcludeLoop(path, xs, j, should) ==
    IF j > Len(xs) THEN should
    ELSE ExcludeLoop(path, xs, j + 1,
                     IF MatchString(xs[j], path) THEN FALSE ELSE should)

\* lines 179-188: the outer loop, from include i on
RECURSIVE IncludeLoop(_, _, _, _, _)
IncludeLoop(path, is, xs, i, should) ==
    IF i > Len(is) THEN should
    ELSE IncludeLoop(path, is, xs, i + 1,
             ExcludeLoop(path, xs, 1,
                 IF MatchString(is[i], path) THEN TRUE ELSE should))

\* in each round the excludes are tried before the include
RECURSIVE IncludeLoopExcludeFirst(_, _, _, _, _)
IncludeLoopExcludeFirst(path, is, xs, i, should) ==
    IF i > Len(is) THEN should
    ELSE IncludeLoopExcludeFirst(path, is, xs, i + 1,
             IF MatchString(is[i], path) THEN TRUE
             ELSE ExcludeLoop(path, xs, 1, should))
ShouldIncludeExcludeFirst(path, is, xs) ==
    IncludeLoopExcludeFirst(path, is, xs, 1, FALSE)

\* lines 178-188
ShouldInclude(path, is, xs) == IncludeLoop(path, is, xs, 1, FALSE)

\* only the first pattern is tried
IgnoreFirstOnly(to, excludeImages) ==
    Len(excludeImages) > 0 /\ MatchString(excludeImages[1], to)

\* lines 110-116: some exclude-image pattern matches the destination
Ignore(to, excludeImages) ==
    \E i \in 1..Len(excludeImages) : MatchString(excludeImages[i], to)

Dash == <<Ch("-")>>

\* fmt.Sprintf("%s-%s-%s-%s", org, repo, branch, to)
dockerfileComponentKey(cfg, ib) ==
    cfg.org \o Dash \o cfg.repo \o Dash \o cfg.branch \o Dash \o ib

NoError == [kind |-> "none", path |-> ""]

\* a Go map: a function; m[k] = v adds k or replaces its value
EmptyMap == [k \in {} |-> {}]
MapSet(m, k, v) == [x \in DOMAIN m \cup {k} |-> IF x = k THEN v ELSE m[x]]

----------------------------------------------------------------------------
(* The inputs of the name derivation *)

MaxBase == 65
MaxSuffix == 64

BaseTails == {<<>>, S(<<"-">>), S(<<"b">>)}
PlainBases == {Fill("a", n) \o t : n \in 0..MaxBase, t \in BaseTails}
\* names that an earlier derivation produced are names too
DerivedBases == {Name(b, <<>>).val : b \in {x \in PlainBases : Len(x) > longest}}
Bases == PlainBases \cup DerivedBases

SuffixTails == {<<>>, S(<<"-">>), S(<<"s">>)}
Suffixes == {Fill(c, n) \o t : c \in {"s", "-"}, n \in 0..MaxSuffix, t \in SuffixTails}

\* the variables of a part of the program that is not running
NameIdle == parent = <<>> /\ suffix = <<>> /\ ret = Ok(<<>>)
FilterIdle == matchablePath = "" /\ shouldInclude = FALSE
RunIdle ==
    /\ rootErr = "none" /\ next = 0 /\ parsed = <<>> /\ configs = <<>>
    /\ err = NoError
    /\ groupIdx = 0 /\ applications = EmptyMap /\ visited = {} /\ written = {}
NoFlags ==
    [openshiftReleasePath |-> "", applicationName |-> <<>>,
     includes |-> <<>>, excludes |-> <<>>, excludeImages |-> <<>>]

InitName ==
    /\ pc = "call"
    /\ parent \in Bases
    /\ suffix \in Suffixes
    /\ ret = Ok(<<>>)
    /\ flags = NoFlags
    /\ FilterIdle
    /\ RunIdle

CallName ==
    /\ pc = "call"
    /\ pc' = "Name"
    /\ ret' = Name(parent, suffix)
    /\ UNCHANGED <<parent, suffix, flags, filterVars, walkVars, err, outVars>>

CallTruncate ==
    /\ pc = "call"
    /\ suffix = <<>>
    /\ pc' = "truncate"
    /\ ret' = truncate(parent)
    /\ UNCHANGED <<parent, suffix, flags, filterVars, walkVars, err, outVars>>

NextName == CallName \/ CallTruncate

SpecName == InitName /\ [][NextName]_vars

----------------------------------------------------------------------------
(* The include/exclude loop on its own: any path, any two pattern lists *)

MaxPatterns == 2

FilterPaths == {"a/b/c", "a/x/c"}
FilterPatterns == {Pat(m) : m \in SUBSET FilterPaths}
RECURSIVE SeqsUpTo(_, _)
SeqsUpTo(set, n) ==
    IF n = 0 THEN {<<>>}
    ELSE LET shorter == SeqsUpTo(set, n - 1)
         IN  shorter \cup {Append(q, x) : q \in shorter, x \in set}

InitFilter ==
    /\ pc = "filter"
    /\ matchablePath \in FilterPaths
    /\ shouldInclude = FALSE
    /\ \E is \in SeqsUpTo(FilterPatterns, MaxPatterns),
          xs \in SeqsUpTo(FilterPatterns, MaxPatterns) :
          flags = [NoFlags EXCEPT !.includes = is, !.excludes = xs]
    /\ NameIdle
    /\ RunIdle

\* lines 178-193 of the walk callback: the loop, then the early return or
\* the call of parseConfig
Filter ==
    /\ pc = "filter"
    /\ shouldInclude' = ShouldInclude(matchablePath, flags.includes, flags.excludes)
    /\ IF shouldInclude'
       THEN /\ pc' = "parse"
            /\ parsed' = Append(parsed, [path |-> matchablePath, ok |-> TRUE])
       ELSE /\ pc' = "skipped"
            /\ UNCHANGED parsed
    /\ UNCHANGED <<nameVars, flags, matchablePath, rootErr, next, configs, err, outVars>>

NextFilter == Filter

SpecFilter == InitFilter /\ [][NextFilter]_vars

\* some pattern of the list matches the path
MatchesAny(rs, path) == \E i \in 1..Len(rs) : MatchString(rs[i], path)

\* C1: the loop ends with shouldInclude = (some include matches) and not
\* (some exclude matches), for any two pattern lists in any order; a path
\* matched by an exclude pattern, or by no include pattern, is never parsed.
C1_ClosedForm ==
    pc \in {"parse", "skipped"} =>
        /\ shouldInclude = (/\ MatchesAny(flags.includes, matchablePath)
                            /\ ~MatchesAny(flags.excludes, matchablePath))
        /\ (pc = "parse") = shouldInclude
        /\ \A i \in 1..Len(parsed) :
              /\ MatchesAny(flags.includes, parsed[i].path)
              /\ ~MatchesAny(flags.excludes, parsed[i].path)

\* C1 witness: an include pattern matches after the only matching exclude
\* pattern was already seen in an earlier round, and the path is skipped.
C1_Witness ==
    /\ pc = "skipped"
    /\ Len(flags.includes) = 2 /\ Len(flags.excludes) = 2
    /\ ~MatchString(flags.includes[1], matchablePath)
    /\ MatchString(flags.includes[2], matchablePath)
    /\ MatchString(flags.excludes[1], matchablePath)
    /\ ~MatchString(flags.excludes[2], matchablePath)

----------------------------------------------------------------------------
(* The run: flags, walk, grouping, output *)

MaxImages == 2

\* the paths below the root, relative to it, in the lexical order of WalkDir
WalkOrder == <<"a/b/c", "a/x/c">>
PatA == Pat({"a/b/c", "a/x/c"})      \* ^a/
PatAB == Pat({"a/b/c"})              \* ^a/b/
IncludeFlags == {<<>>, <<PatA>>, <<BadPat>>}
ExcludeFlags == {<<>>, <<PatAB>>, <<BadPat>>}

Web == S(<<"w", "e", "b">>)
Db == S(<<"d", "b">>)
Dests == {Web, Db}
ExcludeImageFlags == {<<>>, <<Pat({Web})>>, <<Pat({}), Pat({Web})>>, <<BadPat>>}

ApplicationNames == {S(<<"M", "y", " ", "A", "p", "p">>), S(<<"a", ".", "b">>)}
ReleasePaths == {"", "release"}

Main == S(<<"m", "a", "i", "n">>)
Metadatas ==
    { [org |-> S(<<"o">>), repo |-> S(<<"r">>), branch |-> Main],
      [org |-> S(<<"o", "-", "r">>), repo |-> S(<<"r">>), branch |-> Main],
      [org |-> S(<<"o">>), repo |-> S(<<"r", "-", "r">>), branch |-> Main] }

\* ReleaseBuildConfiguration: the metadata and the destinations (To) of Images
Docs ==
    { [org |-> m.org, repo |-> m.repo, branch |-> m.branch, images |-> ims] :
        m \in Metadatas, ims \in SeqsUpTo(Dests, MaxImages) }
NoDoc == [org |-> <<>>, repo |-> <<>>, branch |-> <<>>, images |-> <<>>]

\* what the walk finds at a path: nothing, a directory, a file that does not
\* parse, a file that parses into a document
Entries ==
    {[kind |-> k, ok |-> FALSE, doc |-> NoDoc] : k \in {"none", "dir", "file"}}
    \cup {[kind |-> "file", ok |-> TRUE, doc |-> d] : d \in Docs}

Init ==
    /\ pc = "flags"
    /\ flags \in [openshiftReleasePath : ReleasePaths,
                   applicationName : ApplicationNames,
                   includes : IncludeFlags,
                   excludes : ExcludeFlags,
                   excludeImages : ExcludeImageFlags]
    /\ NameIdle
    /\ FilterIdle
    /\ RunIdle

\* lines 61-79: the checks of the command line
FlagsFail(f) ==
    \/ f.openshiftReleasePath = ""
    \/ Len(f.includes) = 0
    \/ toRegexpFails(f.includes)
    \/ toRegexpFails(f.excludes)
    \/ toRegexpFails(f.excludeImages)

ParseFlags ==
    /\ pc = "flags"
    /\ IF FlagsFail(flags)
       THEN pc' = "error" /\ err' = [kind |-> "flags", path |-> ""]
       ELSE pc' = "walk" /\ UNCHANGED err
    /\ UNCHANGED <<nameVars, flags, filterVars, walkVars, outVars>>

\* lines 168-171 for the root.  WalkDir calls the function with a nil entry
\* when Lstat of the root fails, and a second time with the error when the
\* root cannot be listed.
WalkRootOutcome(kind) ==
    CASE kind = "missing" -> [pc |-> "panic", next |-> 0]           \* nil.IsDir()
      [] kind = "unreadable" -> [pc |-> "walk", next |-> Len(WalkOrder) + 1]
      [] OTHER -> [pc |-> "walk", next |-> 1]

WalkRoot ==
    /\ pc = "walk"
    /\ next = 0
    /\ \E kind \in {"missing", "unreadable", "dir"} :
          /\ rootErr' = (IF kind = "dir" THEN "none" ELSE kind)
          /\ pc' = WalkRootOutcome(kind).pc
          /\ next' = WalkRootOutcome(kind).next
    /\ UNCHANGED <<nameVars, flags, filterVars, parsed, configs, err, outVars>>

\* a file that does not parse is skipped
ParseOutcomeSkip(entry, path, cs) ==
    [stop |-> FALSE,
     configs |-> IF entry.ok THEN Append(cs, [cfg |-> entry.doc, path |-> path])
                 ELSE cs]

\* lines 193-205: what the callback does with a file that passed the filter:
\* [stop, configs], stop being the error that ends the walk
ParseOutcome(entry, path, cs) ==
    IF entry.ok
    THEN [stop |-> FALSE, configs |-> Append(cs, [cfg |-> entry.doc, path |-> path])]
    ELSE [stop |-> TRUE, configs |-> cs]

\* lines 207-210 on an error: what collectConfigurations returns for configs
ErrorReturn(cs) == <<>>

\* lines 168-206 for one entry below the root
WalkEntry ==
    /\ pc = "walk"
    /\ next \in 1..Len(WalkOrder)
    /\ \E entry \in Entries :
        LET path == WalkOrder[next]
            include == ShouldInclude(path, flags.includes, flags.excludes)
            out == ParseOutcome(entry, path, configs)
        IN  IF entry.kind # "file"
            THEN /\ next' = next + 1
                 /\ UNCHANGED <<pc, filterVars, parsed, configs, err>>
            ELSE /\ matchablePath' = path
                 /\ shouldInclude' = include
                 /\ IF ~include
                    THEN /\ next' = next + 1
                         /\ UNCHANGED <<pc, parsed, configs, err>>
                    ELSE /\ parsed' = Append(parsed, [path |-> path, ok |-> entry.ok])
                         /\ IF out.stop
                            THEN /\ pc' = "error"
                                 /\ err' = [kind |-> "parse", path |-> path]
                                 /\ configs' = ErrorReturn(out.configs)
                                 /\ UNCHANGED next
                            ELSE /\ configs' = out.configs
                                 /\ next' = next + 1
                                 /\ UNCHANGED <<pc, err>>
    /\ UNCHANGED <<nameVars, flags, rootErr, outVars>>

\* lines 207-210 and 81-100: the walk is over without an error
WalkReturn ==
    /\ pc = "walk"
    /\ next > Len(WalkOrder)
    /\ pc' = "group"
    /\ UNCHANGED <<nameVars, flags, filterVars, walkVars, err, outVars>>

\* line 104
ApplicationKey(name) == truncate(sanitize(name))

\* lines 121-126: the record of one build step
Record(name, c, ib) ==
    [ApplicationName |-> name, cfg |-> c.cfg, Path |-> c.path, To |-> ib]

\* a key that is present keeps its record
InsertIfAbsent(components, key, rec) ==
    IF key \in DOMAIN components THEN components ELSE MapSet(components, key, rec)

\* line 121: the assignment into the inner map
Insert(components, key, rec) == MapSet(components, key, rec)

\* lines 108-127: the inner loop over c.Images, from image j on
RECURSIVE GroupImages(_, _, _, _, _)
GroupImages(components, name, c, j, excludeImages) ==
    IF j > Len(c.cfg.images) THEN components
    ELSE LET ib == c.cfg.images[j]
         IN  GroupImages(
                 IF Ignore(ib, excludeImages) THEN components
                 ELSE Insert(components, dockerfileComponentKey(c.cfg, ib),
                             Record(name, c, ib)),
                 name, c, j + 1, excludeImages)

\* lines 103-128: one round of the outer loop
GroupConfig ==
    /\ pc = "group"
    /\ groupIdx < Len(configs)
    /\ LET c == configs[groupIdx + 1]
           k == ApplicationKey(flags.applicationName)
           apps == IF k.val \in DOMAIN applications THEN applications
                   ELSE MapSet(applications, k.val, EmptyMap)
       IN  IF k.panic
           THEN pc' = "panic" /\ UNCHANGED <<groupIdx, applications>>
           ELSE /\ applications' =
                      MapSet(apps, k.val,
                             GroupImages(apps[k.val], flags.applicationName, c, 1,
                                         flags.excludeImages))
                /\ groupIdx' = groupIdx + 1
                /\ UNCHANGED pc
    /\ UNCHANGED <<nameVars, flags, filterVars, walkVars, err, visited, written>>

GroupDone ==
    /\ pc = "group"
    /\ groupIdx = Len(configs)
    /\ pc' = "write"
    /\ UNCHANGED <<nameVars, flags, filterVars, walkVars, err, outVars>>

\* the <<appKey, componentKey>> the two loops of lines 130-132 range over
Pairs == UNION {{<<a, c>> : c \in DOMAIN applications[a]} : a \in DOMAIN applications}

AppDir(a) == [kind |-> "dir", app |-> a, component |-> <<>>, sub |-> ""]
AppFile(a) == [kind |-> "file", app |-> a, component |-> <<>>, sub |-> ""]
ComponentsDir(a) == [kind |-> "dir", app |-> a, component |-> <<>>, sub |-> "components"]
ComponentFile(a, c) == [kind |-> "file", app |-> a, component |-> c, sub |-> "components"]

\* lines 133-159 in order: MkdirAll, Execute, WriteFile for the application,
\* then for the component; what exists once the first n of them succeeded
Effects(a, c, n) ==
    (IF n >= 1 THEN {AppDir(a)} ELSE {}) \cup
    (IF n >= 3 THEN {AppFile(a)} ELSE {}) \cup
    (IF n >= 4 THEN {ComponentsDir(a)} ELSE {}) \cup
    (IF n >= 6 THEN {ComponentFile(a, c)} ELSE {})

\* lines 132-160: one round of the inner output loop; a map is ranged over in
\* any order, and each of the six calls may fail
WriteComponent ==
    /\ pc = "write"
    /\ \E pair \in Pairs \ visited :
       \E n \in 0..6 :
          /\ written' = written \cup Effects(pair[1], pair[2], n)
          /\ visited' = visited \cup {pair}
          /\ IF n < 6
             THEN pc' = "error" /\ err' = [kind |-> "write", path |-> ""]
             ELSE UNCHANGED <<pc, err>>
    /\ UNCHANGED <<nameVars, flags, filterVars, walkVars, groupIdx, applications>>

\* line 163
Return ==
    /\ pc = "write"
    /\ Pairs \ visited = {}
    /\ pc' = "done"
    /\ UNCHANGED <<nameVars, flags, filterVars, walkVars, err, outVars>>

Next ==
    \/ ParseFlags
    \/ WalkRoot
    \/ WalkEntry
    \/ WalkReturn
    \/ GroupConfig
    \/ GroupDone
    \/ WriteComponent
    \/ Return

Spec == Init /\ [][Next]_vars

----------------------------------------------------------------------------
(* Properties of the run *)

\* the build steps of document c from image j on that no exclude-image pattern
\* matches, each with its component key and its record
RECURSIVE KeptSteps(_, _)
KeptSteps(c, j) ==
    IF j > Len(c.cfg.images) THEN <<>>
    ELSE LET ib == c.cfg.images[j]
         IN  (IF MatchesAny(flags.excludeImages, ib) THEN <<>>
              ELSE <<[key |-> dockerfileComponentKey(c.cfg, ib),
                      rec |-> [ApplicationName |-> flags.applicationName,
                               cfg |-> c.cfg, Path |-> c.path, To |-> ib]]>>)
             \o KeptSteps(c, j + 1)

\* the kept build steps of the first n documents, in processing order
RECURSIVE StepsUpTo(_)
StepsUpTo(n) ==
    IF n = 0 THEN <<>> ELSE StepsUpTo(n - 1) \o KeptSteps(configs[n], 1)

\* C4: the grouping map holds one record per component key inserted so far,
\* the one of the last build step in processing order that produced the key,
\* and replacing a record never makes the run fail.
C4_LastWriteWins ==
    LET steps == StepsUpTo(groupIdx)
        keys == {steps[i].key : i \in 1..Len(steps)}
        last(k) == CHOOSE i \in 1..Len(steps) :
                      /\ steps[i].key = k
                      /\ \A j \in (i + 1)..Len(steps) : steps[j].key # k
    IN  /\ \A a \in DOMAIN applications :
              /\ DOMAIN applications[a] = keys
              /\ \A k \in keys : applications[a][k] = steps[last(k)].rec
        /\ groupIdx > 0 => DOMAIN applications # {}
        /\ pc = "error" /\ Len(parsed) > 0 /\ parsed[Len(parsed)].ok =>
              err.kind = "write" /\ groupIdx = Len(configs)

\* C4 witness: the grouping is over and two build steps with different
\* records produced the same component key.
C4_Witness ==
    LET steps == StepsUpTo(groupIdx)
    IN  /\ pc = "write"
        /\ \E i, j \in 1..Len(steps) :
              i < j /\ steps[i].key = steps[j].key /\ steps[i].rec # steps[j].rec

\* C5: no record of the grouping map has a destination that an exclude-image
\* pattern matches, and every build step of a processed document whose
\* destination no such pattern matches has its component key in the map.
C5_ImageExclusion ==
    /\ \A a \in DOMAIN applications :
          \A k \in DOMAIN applications[a] :
              ~MatchesAny(flags.excludeImages, applications[a][k].To)
    /\ \A n \in 1..groupIdx :
          \A j \in 1..Len(configs[n].cfg.images) :
              LET ib == configs[n].cfg.images[j]
              IN  ~MatchesAny(flags.excludeImages, ib) =>
                      \E a \in DOMAIN applications :
                          dockerfileComponentKey(configs[n].cfg, ib)
                              \in DOMAIN applications[a]

\* C5 witness: a processed document has a build step that the second
\* exclude-image pattern matches and one that no pattern matches.
C5_Witness ==
    /\ groupIdx > 0
    /\ Len(flags.excludeImages) = 2
    /\ \E i, j \in 1..Len(configs[1].cfg.images) :
          /\ MatchString(flags.excludeImages[2], configs[1].cfg.images[i])
          /\ ~MatchesAny(flags.excludeImages, configs[1].cfg.images[j])

\* the entity a build step stands for
Entity(c, j) == <<c.cfg.org, c.cfg.repo, c.cfg.branch, c.cfg.images[j]>>

\* C6: build steps of distinct (org, repo, branch, destination) have distinct
\* component keys, so that they never replace each other in the grouping map.
C6_DistinctKeys ==
    \A m, n \in 1..groupIdx :
        \A i \in 1..Len(configs[m].cfg.images), j \in 1..Len(configs[n].cfg.images) :
            Entity(configs[m], i) # Entity(configs[n], j) =>
                dockerfileComponentKey(configs[m].cfg, configs[m].cfg.images[i])
                    # dockerfileComponentKey(configs[n].cfg, configs[n].cfg.images[j])

\* C8: when the root is missing or cannot be listed, the run ends with the
\* error of the walk.
C8_RootErrorAborts ==
    rootErr # "none" => pc = "error" /\ err.kind = "walk"

\* C9: a document that fails to parse ends the run there, with the error of
\* that path: it is the last one parsed, no documents are returned, nothing
\* is grouped and nothing is written; and whatever is written is written after
\* the walk has ended with every parse a success.
C9_ParseErrorAborts ==
    /\ \A i \in 1..Len(parsed) :
          ~parsed[i].ok =>
              /\ i = Len(parsed)
              /\ pc = "error"
              /\ err = [kind |-> "parse", path |-> parsed[i].path]
              /\ configs = <<>>
              /\ groupIdx = 0
              /\ applications = EmptyMap
              /\ written = {}
    /\ written # {} =>
          /\ pc \in {"write", "done", "error"}
          /\ next > Len(WalkOrder)
          /\ \A i \in 1..Len(parsed) : parsed[i].ok
          /\ Len(configs) = Len(parsed)

\* C9 witness: the second document fails to parse after the first one was
\* parsed.
C9_Witness ==
    /\ pc = "error"
    /\ Len(parsed) = 2
    /\ parsed[1].ok
    /\ ~parsed[2].ok

\* C10: when the run completes without an error, the application document of
\* every application key of the grouping map is written, and the component
\* document of every component key under it.
C10_AllOutputsWritten ==
    pc = "done" =>
        \A a \in DOMAIN applications :
            /\ AppFile(a) \in written
            /\ \A c \in DOMAIN applications[a] : ComponentFile(a, c) \in written

----------------------------------------------------------------------------
(* Properties of the name derivation *)

Last(s) == s[Len(s)]
Called == pc = "Name"
\* the branch of line 291, and inside it the branch of line 294
TooLong == Len(parent) > longest - Len(suffix)
LongSuffix == head - Len(suffix) <= 0
EndsAlphanumeric(s) == IsAlphanumeric(Last(s))

\* C2: Name returns without an out-of-range slice or index, and what it
\* returns is at most 63 characters long, on each of its three paths.
C2_LengthBound ==
    pc \in {"Name", "truncate"} => ~ret.panic /\ Len(ret.val) <= longest

\* C2 witness: an empty base with a suffix longer than 63: the hash is padded
\* with the first 31 characters of the suffix, up to the full 63.
C2_Witness ==
    /\ Called
    /\ parent = <<>>
    /\ Len(suffix) > longest
    /\ ~ret.panic
    /\ Len(ret.val) = longest

HashOffset(p, s) ==
    IF head - Len(s) <= 0
    THEN (IF head < Len(p) THEN head ELSE Len(p))
    ELSE head - Len(s)

\* the two bases are treated alike: both returned unchanged, or both
\* shortened with the digest at the same offset
SameShape(p, q, s) ==
    /\ (Len(p) > longest - Len(s)) = (Len(q) > longest - Len(s))
    /\ Len(p) > longest - Len(s) => HashOffset(p, s) = HashOffset(q, s)

\* C7 as stated: with a collision-free digest, no other base gives the same
\* name under the same suffix.
C7_InjectiveInBase ==
    Called => \A b \in Bases : b # parent => Name(b, suffix).val # ret.val

\* C7 amended: with a collision-free digest, two distinct bases that are both
\* returned unchanged, or both shortened with the digest at the same offset,
\* give distinct names under the same suffix.
C7_InjectiveSameShape ==
    Called =>
        \A b \in Bases :
            b # parent /\ SameShape(parent, b, suffix) =>
                Name(b, suffix).val # ret.val

\* C7 witness: two distinct bases that are both too long and agree on all the
\* characters that survive the truncation.
C7_Witness ==
    /\ Called
    /\ TooLong /\ ~LongSuffix
    /\ \E b \in Bases :
          /\ b # parent
          /\ SameShape(parent, b, suffix)
          /\ SubSeq(b, 1, HashOffset(b, suffix))
                = SubSeq(parent, 1, HashOffset(parent, suffix))
          /\ Name(b, suffix).val # ret.val

====
